---- MODULE Spec2Model ----
(***************************************************************************)
(* Webhook verification and event normalisation of the payment SDK:        *)
(* StripePaymentProvider (header-signed scheme), PaydunyaPaymentProvider   *)
(* (shared-secret hash scheme) and the earlier PaydunyaPaymentProvider     *)
(* whose webhook handler only knows the "completed" status.                *)
(*                                                                         *)
(* One behaviour is the life of one provider instance.  JavaScript scalars *)
(* are strings: "undefined", "null", "s:<text>" for a string and           *)
(* "n:<digits>" for a number.  A JavaScript object is a function from its  *)
(* keys to scalars; NoObject stands for a null or undefined object.        *)
(***************************************************************************)
EXTENDS Naturals, Sequences, FiniteSets, TLC

VARIABLES provider, config, eventEmitter, webhookSecret, masterKeySha512Hash,
          initPc, emitted, checkoutDone, last, calls, secretsUsed, redelivered,
          compareSteps

\* secretsUsed: the secrets the handleWebhook calls so far ran with;
\* redelivered: the earlier delivery when the last call is a redelivery;
\* compareSteps: the costs of the hash comparisons that rejected a webhook
vars == <<provider, config, eventEmitter, webhookSecret, masterKeySha512Hash,
          initPc, emitted, checkoutDone, last, calls, secretsUsed, redelivered,
          compareSteps>>

\* ------------------------------------------------------------------ bounds

\* handleWebhook and checkout calls made on the provider in one behaviour
MaxCalls == 2

\* ------------------------------------------------------- JavaScript values

Undefined == "undefined"
Null == "null"

\* JavaScript truthiness of a scalar (the operand of ! and of if)
Truthy(v) == v \notin {"undefined", "null", "s:", "n:0", "n:NaN"}

NoObject == [x \in {"$nullish"} |-> "undefined"]
IsObject(o) == "$nullish" \notin DOMAIN o

\* o.k of an object o
Get(o, k) == IF k \in DOMAIN o THEN o[k] ELSE Undefined

\* o?.k
OptGet(o, k) == IF IsObject(o) THEN Get(o, k) ELSE Undefined

\* the own properties of o, none when o is null or undefined
Own(o) == IF IsObject(o) THEN o ELSE [k \in {} |-> Undefined]

\* {...a, ...b}: the properties of b win
Spread(a, b) ==
  [k \in DOMAIN Own(a) \cup DOMAIN Own(b) |->
     IF k \in DOMAIN Own(b) THEN b[k] ELSE a[k]]

\* Number(v)
Number(v) ==
  CASE v = "n:5000" -> "n:5000"
    [] v = "s:5000" -> "n:5000"
    [] v = "n:0" -> "n:0"
    [] v = "s:" -> "n:0"
    [] v = "null" -> "n:0"
    [] OTHER -> "n:NaN"

\* JSON.stringify(v) of a metadata value
JSONstringify(v) ==
  CASE v = "s:hello" -> "s:\"hello\""
    [] v = "s:tx-evil" -> "s:\"tx-evil\""
    [] v = "n:7" -> "s:7"
    [] v = "o:{a:1}" -> "s:{\"a\":1}"
    [] OTHER -> Undefined

\* JSON.parse(v) inside try/catch: the parsed value, or v itself when
\* JSON.parse throws
JSONparseOrRaw(v) ==
  CASE v = "s:\"hello\"" -> "s:hello"
    [] v = "s:\"tx-evil\"" -> "s:tx-evil"
    [] v = "s:7" -> "n:7"
    [] v = "s:{\"a\":1}" -> "o:{a:1}"
    [] OTHER -> v

\* createHash("sha512").update(key).digest("hex")
Sha512(key) ==
  CASE key = "s:mk_A" -> "s:sha512hex(mk_A)"
    [] key = "s:mk_B" -> "s:sha512hex(mk_B)"
    [] OTHER -> "s:sha512hex(other)"

\* ------------------------------------------------------------------ events

PAYMENT_INITIATED == "s:PAYMENT_INITIATED"
PAYMENT_SUCCESSFUL == "s:PAYMENT_SUCCESSFUL"
PAYMENT_FAILED == "s:PAYMENT_FAILED"
PAYMENT_CANCELLED == "s:PAYMENT_CANCELLED"

CREDIT_CARD == "s:CREDIT_CARD"
WAVE == "s:WAVE"
ORANGE_MONEY == "s:ORANGE_MONEY"
XOF == "s:XOF"

\* a payment event; a property the object literal does not set is undefined
PaymentEvent(type, paymentMethod, amount, currency, id, reference, metadata, reason, paymentProvider, redirectUrl) ==
  [type |-> type, paymentMethod |-> paymentMethod,
   transactionAmount |-> amount, transactionCurrency |-> currency,
   transactionId |-> id, transactionReference |-> reference,
   metadata |-> metadata, reason |-> reason,
   paymentProvider |-> paymentProvider, redirectUrl |-> redirectUrl]

NoEvent ==
  PaymentEvent("none", Undefined, Undefined, Undefined, Undefined, Undefined,
               NoObject, Undefined, Undefined, Undefined)

\* what a call of an async method settles with
\*   (kind "null" or "undefined": that value; "event": the event; "result": a
\*   CheckoutResult; "throw": the promise is rejected with error)
RetNull == [kind |-> "null", event |-> NoEvent, error |-> "none"]
RetUndefined == [kind |-> "undefined", event |-> NoEvent, error |-> "none"]
RetEvent(ev) == [kind |-> "event", event |-> ev, error |-> "none"]
RetResult == [kind |-> "result", event |-> NoEvent, error |-> "none"]
Rejected(error) == [kind |-> "throw", event |-> NoEvent, error |-> error]

\* a call of a method that is not async and throws: the exception leaves the
\*   call itself, no promise is returned
Thrown(error) == [kind |-> "throwSync", event |-> NoEvent, error |-> error]

\* the result of a handler: what it settles with and the events it passed to
\* this.eventEmitter?.emit, in order
Outcome(ret, events) == [ret |-> ret, events |-> events]

\* ---------------------------------------------------------------- emitters

NoEmitter == "none"
Emitters == {"e1", "e2"}

\* the logs were the provider to emit on every emitter it was ever given
EmitToAll(log, em, events) ==
  IF em = NoEmitter THEN log ELSE [e \in DOMAIN log |-> log[e] \o events]

\* the log were a handler to suspend between its emit calls: its first
\*   event lands before the last event already on the log
EmitInterleaved(log, em, events) ==
  IF em = NoEmitter THEN log
  ELSE IF Len(events) >= 1 /\ Len(log[em]) >= 1
  THEN [log EXCEPT ![em] =
          SubSeq(@, 1, Len(@) - 1) \o <<events[1]>> \o <<@[Len(@)]>>
            \o SubSeq(events, 2, Len(events))]
  ELSE [log EXCEPT ![em] = @ \o events]

\* this.eventEmitter?.emit(type, event) for each event of events, in order
Emit(log, em, events) ==
  IF em = NoEmitter THEN log ELSE [log EXCEPT ![em] = @ \o events]

\* the events a call delivers to the emitter em
Delivered(em, events) == IF em = NoEmitter THEN <<>> ELSE events

\* ------------------------------------------------------------------ Stripe

\* HandleWebhookOptions as passed to handleWebhook: kind says how much of
\*   options.headers["stripe-signature"] is there; a signature is the HMAC
\*   of some bytes under some key: bodyOk says whether the bytes are rawBody
StripeKeys == {"s:whsec_cfg", "s:whsec_reg"}

NoSig == [bodyOk |-> FALSE, key |-> Undefined]

StripeOptions ==
  {[kind |-> k, sig |-> NoSig] : k \in {"absent", "noheaders", "nosig"}}
  \cup {[kind |-> "sig", sig |-> [bodyOk |-> TRUE, key |-> k]] : k \in StripeKeys}
  \cup {[kind |-> "sig", sig |-> [bodyOk |-> FALSE, key |-> "s:whsec_cfg"]]}

\* the four event types init() registers the endpoint for
StripeEventTypes ==
  {"checkout.session.completed", "checkout.session.expired",
   "checkout.session.async_payment_succeeded",
   "checkout.session.async_payment_failed"}

\* session.metadata as Stripe stores it: string values only
StripeMetadata ==
  {NoObject,
   [transactionId |-> "s:"],
   [transactionId |-> "s:tx-42"],
   [transactionId |-> "s:tx-42", note |-> "s:{\"a\":1}"],
   [transactionId |-> "s:tx-42", note |-> "s:\"hello\""],
   [transactionId |-> "s:tx-42", note |-> "s:hello"]}

StripeSessions ==
  [id : {"s:cs_1"}, metadata : StripeMetadata, amount_total : {"n:5000"},
   currency : {"s:xof"}, payment_status : {"s:paid", "s:unpaid"}]

\* the Stripe.Event a raw body is the JSON of; the session of an event other
\*   than checkout.session.completed is taken with payment_status "paid"
StripeBodies ==
  {b \in [type : StripeEventTypes, session : StripeSessions] :
     b.type = "checkout.session.completed" \/ b.session.payment_status = "s:paid"}

\* options.headers?.["stripe-signature"]: TRUE when the header is there and
\*   not the empty string
HasSignature(options) == options.kind = "sig"

\* stripe.webhooks.constructEvent(rawBody, signature, secret): the parsed
\*   event when signature is the HMAC of rawBody under secret, else it throws
constructEvent(rawBody, signature, secret) ==
  [ok |-> signature.bodyOk /\ signature.key = secret, event |-> rawBody]

\* parseMetadata without its JSON.parse: every value stays the raw string
parseMetadataRaw(metadata) ==
  [k \in DOMAIN metadata |-> metadata[k]]

\* parseMetadata: JSON.parse of every value, the raw value when it throws
parseMetadata(metadata) ==
  [k \in DOMAIN metadata |-> JSONparseOrRaw(metadata[k])]

StripeEvent(type, session, reason) ==
  PaymentEvent(type, CREDIT_CARD, Number(session.amount_total),
               session.currency, OptGet(session.metadata, "transactionId"),
               session.id, parseMetadata(session.metadata), reason,
               "s:StripePaymentProvider", Undefined)

\* emitSuccessfulPayment without its eventEmitter?.emit call
emitSuccessfulPaymentNoEmit(session) ==
  IF ~Truthy(OptGet(session.metadata, "transactionId"))
  THEN Outcome(RetNull, <<>>)
  ELSE Outcome(RetEvent(StripeEvent(PAYMENT_SUCCESSFUL, session, Undefined)),
               <<>>)

emitSuccessfulPayment(session) ==
  IF ~Truthy(OptGet(session.metadata, "transactionId"))
  THEN Outcome(RetNull, <<>>)
  ELSE LET paymentSuccessfulEvent ==
             StripeEvent(PAYMENT_SUCCESSFUL, session, Undefined)
       IN Outcome(RetEvent(paymentSuccessfulEvent), <<paymentSuccessfulEvent>>)

\* StripeNormalize without the test of session.payment_status: a completed
\*   session always goes on to emitSuccessfulPayment
StripeNormalizeAlwaysPaid(event) ==
  LET session == event.session IN
  IF event.type = "checkout.session.completed"
  THEN IF ~Truthy(OptGet(session.metadata, "transactionId"))
       THEN Outcome(RetNull, <<>>)
       ELSE LET paymentInitiatedEvent ==
                  StripeEvent(PAYMENT_INITIATED, session, Undefined)
                s == emitSuccessfulPayment(session)
            IN Outcome(s.ret, <<paymentInitiatedEvent>> \o s.events)
  ELSE IF event.type = "checkout.session.async_payment_succeeded"
  THEN emitSuccessfulPayment(session)
  ELSE IF event.type = "checkout.session.async_payment_failed"
  THEN IF ~Truthy(OptGet(session.metadata, "transactionId"))
       THEN Outcome(RetNull, <<>>)
       ELSE LET paymentFailedEvent ==
                  StripeEvent(PAYMENT_FAILED, session, "s:Payment failed")
            IN Outcome(RetEvent(paymentFailedEvent), <<paymentFailedEvent>>)
  ELSE Outcome(RetNull, <<>>)

\* the part of handleWebhook after the signature is verified
StripeNormalize(event) ==
  LET session == event.session IN
  IF event.type = "checkout.session.completed"
  THEN IF ~Truthy(OptGet(session.metadata, "transactionId"))
       THEN Outcome(RetNull, <<>>)
       ELSE LET paymentInitiatedEvent ==
                  StripeEvent(PAYMENT_INITIATED, session, Undefined)
            IN IF session.payment_status = "s:paid"
               THEN LET s == emitSuccessfulPayment(session)
                    IN Outcome(s.ret, <<paymentInitiatedEvent>> \o s.events)
               ELSE Outcome(RetEvent(paymentInitiatedEvent),
                            <<paymentInitiatedEvent>>)
  ELSE IF event.type = "checkout.session.async_payment_succeeded"
  THEN emitSuccessfulPayment(session)
  ELSE IF event.type = "checkout.session.async_payment_failed"
  THEN IF ~Truthy(OptGet(session.metadata, "transactionId"))
       THEN Outcome(RetNull, <<>>)
       ELSE LET paymentFailedEvent ==
                  StripeEvent(PAYMENT_FAILED, session, "s:Payment failed")
            IN Outcome(RetEvent(paymentFailedEvent), <<paymentFailedEvent>>)
  ELSE Outcome(RetNull, <<>>)

\* StripePaymentProvider.handleWebhook(rawBody, options) with this.webhookSecret
\*   = secret
StripeHandle(rawBody, options, secret) ==
  IF options.kind = "absent"
  THEN Outcome(Rejected("TypeError"), <<>>)
  ELSE IF ~HasSignature(options)
  THEN Outcome(RetNull, <<>>)
  ELSE IF ~Truthy(secret)
  THEN Outcome(RetNull, <<>>)
  ELSE LET verified == constructEvent(rawBody, options.sig, secret)
       IN IF ~verified.ok
          THEN Outcome(RetNull, <<>>)
          ELSE StripeNormalize(verified.event)

\* ---------------------------------------------------------------- Paydunya

MasterKeys == {"s:mk_A", "s:mk_B"}

\* body.customer, body.invoice and body.custom_data: complete, or with one
\*   of them missing, or with custom_data lacking transaction_id
PaydunyaInvoice == [token |-> "s:inv_1", total_amount |-> "s:5000"]
PaydunyaCustomData == [transaction_id |-> "s:tx-42", note |-> "s:hello"]

PaydunyaShapes ==
  {[customer |-> [payment_method |-> m], invoice |-> PaydunyaInvoice,
    custom_data |-> PaydunyaCustomData] :
     m \in {"s:wave_senegal", "s:orange_money_senegal", "s:card"}}
  \cup
  {[customer |-> NoObject, invoice |-> PaydunyaInvoice,
    custom_data |-> PaydunyaCustomData],
   [customer |-> [payment_method |-> "s:wave_senegal"], invoice |-> NoObject,
    custom_data |-> PaydunyaCustomData],
   [customer |-> [payment_method |-> "s:wave_senegal"],
    invoice |-> PaydunyaInvoice, custom_data |-> NoObject],
   [customer |-> [payment_method |-> "s:wave_senegal"],
    invoice |-> PaydunyaInvoice, custom_data |-> [note |-> "s:hello"]],
   [customer |-> [payment_method |-> "s:wave_senegal"],
    invoice |-> PaydunyaInvoice,
    custom_data |-> [transaction_id |-> "s:tx-evil"]]}

\* body.status, body.response_code and body.response_text
PaydunyaStatuses ==
  {[status |-> "s:completed", response_code |-> "s:00", response_text |-> "s:text"],
   [status |-> "s:completed", response_code |-> "s:01", response_text |-> "s:text"],
   [status |-> "s:pending", response_code |-> "s:00", response_text |-> "s:text"],
   [status |-> "s:cancelled", response_code |-> "s:00", response_text |-> "s:text"],
   [status |-> "s:cancelled", response_code |-> "s:00", response_text |-> Undefined],
   [status |-> "s:failed", response_code |-> "s:00", response_text |-> "s:text"],
   [status |-> "s:failed", response_code |-> "s:00", response_text |-> Undefined]}

\* body.hash: missing, empty, the SHA-512 of some master key, or a guess of
\*   the length of a digest
PaydunyaHashes ==
  {Undefined, "s:", "s:sha512hex(guess)"} \cup {Sha512(k) : k \in MasterKeys}

\* the hexadecimal digits of a digest (128 of them, cut to the first four);
\*   no digits for a value that is not a digest
HexDigits(h) ==
  CASE h = "s:sha512hex(mk_A)" -> <<"3", "f", "a", "1">>
    [] h = "s:sha512hex(mk_B)" -> <<"3", "f", "0", "9">>
    [] h = "s:sha512hex(guess)" -> <<"3", "0", "0", "0">>
    [] h = "s:sha512hex(other)" -> <<"c", "4", "4", "e">>
    [] OTHER -> <<>>

\* the length of the longest common prefix of two strings
CommonPrefix(a, b) ==
  Cardinality({i \in 1..Len(a) :
                 i <= Len(b) /\ \A j \in 1..i : a[j] = b[j]})

\* the code units a !== b of two strings reads: none when the lengths
\*   differ, else those up to and including the first that differs
StrictNotEqualsSteps(a, b) ==
  IF Len(a) # Len(b) THEN 0
  ELSE IF a = b THEN Len(a)
  ELSE CommonPrefix(a, b) + 1

\* what the test body.hash !== this.masterKeySha512Hash costs when it
\*   rejects the webhook; nothing when the test is not reached or passes
RejectSteps(bodyHash, hash) ==
  IF Truthy(bodyHash) /\ bodyHash # hash
  THEN {StrictNotEqualsSteps(HexDigits(bodyHash), HexDigits(hash))}
  ELSE {}

\* the parsed webhook body (PaydunyaPaymentWebhookBody, any field may be
\*   missing)
PaydunyaBodies ==
  {[hash |-> h, status |-> st.status, response_code |-> st.response_code,
    response_text |-> st.response_text, customer |-> sh.customer,
    invoice |-> sh.invoice, custom_data |-> sh.custom_data] :
     h \in PaydunyaHashes, st \in PaydunyaStatuses, sh \in PaydunyaShapes}

\* v == "00" (loose equality: the number 0 equals the string "00")
LooseEquals00(v) == v \in {"s:00", "n:0"}

\* body.customer.payment_method mapped to a PaymentMethod, or null
PaydunyaPaymentMethod(customer) ==
  IF Get(customer, "payment_method") = "s:wave_senegal" THEN WAVE
  ELSE IF Get(customer, "payment_method") = "s:orange_money_senegal"
  THEN ORANGE_MONEY
  ELSE Null

\* the event object literal of handleWebhook: reading a property of a
\*   missing body.invoice or body.custom_data throws a TypeError
PaydunyaEvent(type, paymentMethod, body, reason) ==
  PaymentEvent(type, paymentMethod, Number(Get(body.invoice, "total_amount")),
               XOF, Get(body.custom_data, "transaction_id"),
               Get(body.invoice, "token"), body.custom_data, reason,
               Undefined, Undefined)

PaydunyaEmit(type, paymentMethod, body, reason) ==
  IF ~IsObject(body.invoice) \/ ~IsObject(body.custom_data)
  THEN Outcome(Rejected("TypeError"), <<>>)
  ELSE Outcome(RetUndefined,
               <<PaydunyaEvent(type, paymentMethod, body, reason)>>)

\* PaydunyaPaymentProvider.handleWebhook(body) with this.masterKeySha512Hash
\*   = hash
PaydunyaHandle(body, hash) ==
  IF ~Truthy(body.hash)
  THEN Outcome(RetUndefined, <<>>)
  ELSE IF body.hash # hash
  THEN Outcome(RetUndefined, <<>>)
  ELSE IF ~IsObject(body.customer)
  THEN Outcome(Rejected("TypeError"), <<>>)
  ELSE LET paymentMethod == PaydunyaPaymentMethod(body.customer) IN
       IF body.status = "s:completed" /\ LooseEquals00(body.response_code)
       THEN PaydunyaEmit(PAYMENT_SUCCESSFUL, paymentMethod, body, Undefined)
       ELSE IF body.status = "s:cancelled"
       THEN PaydunyaEmit(PAYMENT_CANCELLED, paymentMethod, body,
                         body.response_text)
       ELSE IF body.status = "s:failed"
       THEN PaydunyaEmit(PAYMENT_FAILED, paymentMethod, body,
                         body.response_text)
       ELSE Outcome(RetUndefined, <<>>)

\* handleWebhook of the earlier PaydunyaPaymentProvider: only "completed" is
\*   handled, and an unknown payment method drops the webhook
PaydunyaLegacyHandle(body, hash) ==
  IF ~Truthy(body.hash)
  THEN Outcome(RetUndefined, <<>>)
  ELSE IF body.hash # hash
  THEN Outcome(RetUndefined, <<>>)
  ELSE IF body.status = "s:completed" /\ LooseEquals00(body.response_code)
  THEN IF ~IsObject(body.customer)
       THEN Outcome(Rejected("TypeError"), <<>>)
       ELSE LET paymentMethod == PaydunyaPaymentMethod(body.customer) IN
            IF ~Truthy(paymentMethod)
            THEN Outcome(RetUndefined, <<>>)
            ELSE PaydunyaEmit(PAYMENT_SUCCESSFUL, paymentMethod, body,
                              Undefined)
  ELSE Outcome(RetUndefined, <<>>)

\* ---------------------------------------------------------------- checkout

\* the caller's transactionId, and metadata that may itself hold a key named
\*   like the correlation identifier
CheckoutMetadata ==
  {NoObject,
   [note |-> "o:{a:1}"],
   [note |-> "s:hello"],
   [transactionId |-> "s:tx-evil"],
   [transaction_id |-> "s:tx-evil"]}

StripeCheckoutOptions ==
  [transactionId : {"s:tx-42"}, amount : {"n:5000"}, currency : {XOF},
   paymentMethod : {CREDIT_CARD}, phoneValid : {TRUE},
   metadata : CheckoutMetadata]

PaydunyaCheckoutOptions ==
  ([transactionId : {"s:tx-42"}, amount : {"n:5000"}, currency : {XOF},
    paymentMethod : {WAVE, ORANGE_MONEY, CREDIT_CARD}, phoneValid : {TRUE},
    metadata : CheckoutMetadata \ {[note |-> "o:{a:1}"]}])
  \cup
  ([transactionId : {"s:tx-42"}, amount : {"n:5000"}, currency : {XOF, "s:EUR"},
    paymentMethod : {WAVE}, phoneValid : BOOLEAN, metadata : {NoObject}])

\* how the provider's API answers the requests of one checkout: "ok", "nourl"
\*   (Stripe: a session without url), "invoice" (Paydunya: the invoice
\*   request fails) or "payment" (Paydunya: the softpay request fails)
ApiAnswers == {"ok", "nourl", "invoice", "payment"}

\* what the provider stored for a checkout and what checkout returned
Checkout(options, sent, reference, returned) ==
  [op |-> "checkout", options |-> options, sent |-> sent,
   returned |-> returned,
   result |-> [transactionId |-> options.transactionId,
               transactionReference |-> reference,
               transactionAmount |-> options.amount,
               transactionCurrency |-> options.currency]]

NoCheckout ==
  [op |-> "none", options |-> NoObject, sent |-> NoObject,
   returned |-> FALSE,
   result |-> [transactionId |-> Undefined, transactionReference |-> Undefined,
               transactionAmount |-> Undefined,
               transactionCurrency |-> Undefined]]

\* the metadata checkoutRedirect sends with stripe.checkout.sessions.create
StripeCheckoutMetadata(options) ==
  Spread([k \in DOMAIN Own(options.metadata) |->
            JSONstringify(options.metadata[k])],
         [transactionId |-> options.transactionId])

\* StripePaymentProvider.checkoutRedirect(options): done is the checkout
\*   the provider now holds
StripeCheckoutRedirect(options, api) ==
  IF api = "invoice" \/ api = "payment"
  THEN [ret |-> Rejected("StripeError"), events |-> <<>>, done |-> NoCheckout]
  ELSE IF api = "nourl"
  THEN [ret |-> Rejected("UNKNOWN_ERROR"), events |-> <<>>,
        done |-> Checkout(options, StripeCheckoutMetadata(options), "s:cs_1",
                          FALSE)]
  ELSE [ret |-> RetResult, events |-> <<>>,
        done |-> Checkout(options, StripeCheckoutMetadata(options), "s:cs_1",
                          TRUE)]

\* the custom_data checkout sends with checkout-invoice/create
PaydunyaCustomDataOf(options) ==
  Spread([transaction_id |-> options.transactionId], options.metadata)

\* PaydunyaPaymentProvider.checkout(options)
PaydunyaCheckout(options, api) ==
  IF options.currency # XOF
  THEN [ret |-> Rejected("UNSUPPORTED_PAYMENT_METHOD"), events |-> <<>>,
        done |-> NoCheckout]
  ELSE IF ~options.phoneValid
  THEN [ret |-> Rejected("INVALID_PHONE_NUMBER"), events |-> <<>>,
        done |-> NoCheckout]
  ELSE IF api = "invoice"
  THEN [ret |-> Rejected("PaymentError"), events |-> <<>>, done |-> NoCheckout]
  ELSE LET done(returned) ==
             Checkout(options, PaydunyaCustomDataOf(options), "s:inv_1", returned)
       IN
       IF options.paymentMethod # WAVE /\ options.paymentMethod # ORANGE_MONEY
       THEN [ret |-> Rejected("UNSUPPORTED_PAYMENT_METHOD"), events |-> <<>>,
             done |-> done(FALSE)]
       ELSE IF api = "payment"
            \/ (options.paymentMethod = WAVE /\ api = "nourl")
       THEN [ret |-> Rejected("PaymentError"), events |-> <<>>,
             done |-> done(FALSE)]
       ELSE LET redirectUrl == IF options.paymentMethod = WAVE
                               THEN "s:https://pay.wave.com/c/1" ELSE Undefined
                paymentInitiatedEvent ==
                  PaymentEvent(PAYMENT_INITIATED, options.paymentMethod,
                               options.amount, options.currency,
                               options.transactionId, "s:inv_1",
                               options.metadata, Undefined, Undefined,
                               redirectUrl)
            IN [ret |-> RetResult, events |-> <<paymentInitiatedEvent>>,
                done |-> done(TRUE)]

\* ------------------------------------------------------------------- state

Providers == {"Stripe", "Paydunya", "PaydunyaLegacy"}

\* the config object a provider is constructed with
Configs(p) ==
  IF p = "Stripe"
  THEN [webhookUrl : {Undefined, "s:https://host/webhook"},
        webhookSecret : {Undefined, "s:whsec_cfg"},
        masterKey : {Undefined}]
  ELSE [webhookUrl : {Undefined}, webhookSecret : {Undefined},
        masterKey : {"s:mk_A"}]

NoCall ==
  [op |-> "none", body |-> NoObject, options |-> [kind |-> "absent", sig |-> NoSig],
   ret |-> RetUndefined, produced |-> <<>>, events |-> <<>>,
   emitter |-> NoEmitter, secret |-> Undefined]

\* the record of a handleWebhook call: its arguments, what it settled with,
\*   the events it built for the emitter and those the emitter bound at the
\*   time received, and the secret (webhook secret or master key hash) it used
WebhookCall(body, options, out, em, secret) ==
  [op |-> "handleWebhook", body |-> body, options |-> options,
   ret |-> out.ret, produced |-> out.events,
   events |-> Delivered(em, out.events), emitter |-> em, secret |-> secret]

\* the state after new StripePaymentProvider(config) or
\*   new PaydunyaPaymentProvider(config) has returned: Stripe's init() is
\*   suspended in webhookEndpoints.list() when config.webhookUrl is set
Init ==
  /\ provider \in Providers
  /\ config \in Configs(provider)
  /\ eventEmitter = NoEmitter
  /\ webhookSecret = config.webhookSecret
  /\ masterKeySha512Hash =
       IF provider = "Stripe" THEN Undefined ELSE Sha512(config.masterKey)
  /\ initPc = IF provider = "Stripe" /\ Truthy(config.webhookUrl)
              THEN "list" ELSE "done"
  /\ emitted = [e \in Emitters |-> <<>>]
  /\ checkoutDone = NoCheckout
  /\ last = NoCall
  /\ calls = 0
  /\ secretsUsed = {}
  /\ redelivered = NoCall
  /\ compareSteps = {}

\* ----------------------------------------------------------------- actions

\* useEventEmitter(eventEmitter)
useEventEmitter ==
  /\ \E e \in Emitters : eventEmitter' = e
  /\ UNCHANGED <<provider, config, webhookSecret, masterKeySha512Hash, initPc,
                 emitted, checkoutDone, last, calls, secretsUsed,
                 redelivered,
                 compareSteps>>

\* init(): webhookEndpoints.list() resolves; with no endpoint for
\*   config.webhookUrl init goes on to webhookEndpoints.create()
InitListResolved ==
  /\ initPc = "list"
  /\ \E existingWebhook \in BOOLEAN :
       initPc' = IF existingWebhook THEN "done" ELSE "create"
  /\ UNCHANGED <<provider, config, eventEmitter, webhookSecret,
                 masterKeySha512Hash, emitted, checkoutDone, last, calls,
                 secretsUsed,
                 redelivered,
                 compareSteps>>

\* init(): webhookEndpoints.create() resolves with the installed endpoint
InitCreateResolved ==
  /\ initPc = "create"
  /\ webhookSecret' = "s:whsec_reg"
  /\ initPc' = "done"
  /\ UNCHANGED <<provider, config, eventEmitter, masterKeySha512Hash, emitted,
                 checkoutDone, last, calls, secretsUsed,
                 redelivered,
                 compareSteps>>

\* init(): a Stripe API call rejects; the constructor's catch logs the error
InitRejected ==
  /\ initPc \in {"list", "create"}
  /\ initPc' = "failed"
  /\ UNCHANGED <<provider, config, eventEmitter, webhookSecret,
                 masterKeySha512Hash, emitted, checkoutDone, last, calls,
                 secretsUsed,
                 redelivered,
                 compareSteps>>

\* StripePaymentProvider.handleWebhook(rawBody, options)
StripeHandleWebhook(rawBody, options) ==
  /\ provider = "Stripe"
  /\ last.op = "none"
  /\ calls < MaxCalls
  /\ LET out == StripeHandle(rawBody, options, webhookSecret) IN
       /\ emitted' = Emit(emitted, eventEmitter, out.events)
       /\ last' = WebhookCall(rawBody, options, out, eventEmitter, webhookSecret)
  /\ calls' = calls + 1
  /\ secretsUsed' = secretsUsed \cup {webhookSecret}
  /\ UNCHANGED <<provider, config, eventEmitter, webhookSecret,
                 masterKeySha512Hash, initPc, checkoutDone,
                 redelivered,
                 compareSteps>>

\* PaydunyaPaymentProvider.handleWebhook(body), were it to keep the hash of
\*   the body it was given as the cached hash
PaydunyaHandleWebhookCachesBodyHash(body) ==
  /\ provider = "Paydunya"
  /\ last.op = "none"
  /\ calls < MaxCalls
  /\ LET out == PaydunyaHandle(body, masterKeySha512Hash) IN
       /\ emitted' = Emit(emitted, eventEmitter, out.events)
       /\ last' = WebhookCall(body, NoCall.options, out, eventEmitter,
                              masterKeySha512Hash)
  /\ calls' = calls + 1
  /\ secretsUsed' = secretsUsed \cup {masterKeySha512Hash}
  /\ masterKeySha512Hash' = body.hash
  /\ compareSteps' = compareSteps \cup RejectSteps(body.hash, masterKeySha512Hash)
  /\ UNCHANGED <<provider, config, eventEmitter, webhookSecret, initPc,
                 checkoutDone,
                 redelivered>>

\* PaydunyaPaymentProvider.handleWebhook(body)
PaydunyaHandleWebhook(body) ==
  /\ provider = "Paydunya"
  /\ last.op = "none"
  /\ calls < MaxCalls
  /\ LET out == PaydunyaHandle(body, masterKeySha512Hash) IN
       /\ emitted' = Emit(emitted, eventEmitter, out.events)
       /\ last' = WebhookCall(body, NoCall.options, out, eventEmitter,
                              masterKeySha512Hash)
  /\ calls' = calls + 1
  /\ secretsUsed' = secretsUsed \cup {masterKeySha512Hash}
  /\ compareSteps' = compareSteps \cup RejectSteps(body.hash, masterKeySha512Hash)
  /\ UNCHANGED <<provider, config, eventEmitter, webhookSecret,
                 masterKeySha512Hash, initPc, checkoutDone,
                 redelivered>>

\* handleWebhook(body) of the earlier PaydunyaPaymentProvider
PaydunyaLegacyHandleWebhook(body) ==
  /\ provider = "PaydunyaLegacy"
  /\ last.op = "none"
  /\ calls < MaxCalls
  /\ LET out == PaydunyaLegacyHandle(body, masterKeySha512Hash) IN
       /\ emitted' = Emit(emitted, eventEmitter, out.events)
       /\ last' = WebhookCall(body, NoCall.options, out, eventEmitter,
                              masterKeySha512Hash)
  /\ calls' = calls + 1
  /\ secretsUsed' = secretsUsed \cup {masterKeySha512Hash}
  /\ compareSteps' = compareSteps \cup RejectSteps(body.hash, masterKeySha512Hash)
  /\ UNCHANGED <<provider, config, eventEmitter, webhookSecret,
                 masterKeySha512Hash, initPc, checkoutDone,
                 redelivered>>

\* the host's request handler, which awaited the promise of the last call,
\*   resumes with what the call settled with and sends its response; the
\*   host's next call on the provider comes after that
HostResumes ==
  /\ last.op # "none"
  /\ last' = NoCall
  /\ redelivered' = NoCall
  /\ UNCHANGED <<provider, config, eventEmitter, webhookSecret,
                 masterKeySha512Hash, initPc, emitted, checkoutDone, calls,
                 secretsUsed,
                 compareSteps>>

\* the secret this provider verifies webhooks with
CurrentSecret ==
  IF provider = "Stripe" THEN webhookSecret ELSE masterKeySha512Hash

\* handleWebhook(body, options) of this provider
Handle(body, options) ==
  IF provider = "Stripe" THEN StripeHandle(body, options, webhookSecret)
  ELSE IF provider = "Paydunya" THEN PaydunyaHandle(body, masterKeySha512Hash)
  ELSE PaydunyaLegacyHandle(body, masterKeySha512Hash)

\* a redelivery, were handleWebhook to drop a webhook it has already handled
RedeliveryDeduplicated ==
  /\ last.op = "handleWebhook"
  /\ calls < MaxCalls
  /\ last' = WebhookCall(last.body, last.options, Outcome(RetNull, <<>>),
                         eventEmitter, CurrentSecret)
  /\ redelivered' = last
  /\ calls' = calls + 1
  /\ secretsUsed' = secretsUsed \cup {CurrentSecret}
  /\ compareSteps' =
       compareSteps \cup (IF provider = "Stripe" THEN {}
                           ELSE RejectSteps(last.body.hash, masterKeySha512Hash))
  /\ UNCHANGED <<provider, config, eventEmitter, webhookSecret,
                 masterKeySha512Hash, initPc, emitted, checkoutDone>>

\* the payment provider retries the delivery of the last webhook: the host
\*   calls handleWebhook again with the same body and the same headers,
\*   while the request that made the earlier call may still be waiting for
\*   its promise; redelivered keeps the record of the earlier delivery
Redelivery ==
  /\ last.op = "handleWebhook"
  /\ calls < MaxCalls
  /\ LET out == Handle(last.body, last.options) IN
       /\ emitted' = Emit(emitted, eventEmitter, out.events)
       /\ last' = WebhookCall(last.body, last.options, out, eventEmitter,
                              CurrentSecret)
  /\ redelivered' = last
  /\ calls' = calls + 1
  /\ secretsUsed' = secretsUsed \cup {CurrentSecret}
  /\ compareSteps' =
       compareSteps \cup (IF provider = "Stripe" THEN {}
                           ELSE RejectSteps(last.body.hash, masterKeySha512Hash))
  /\ UNCHANGED <<provider, config, eventEmitter, webhookSecret,
                 masterKeySha512Hash, initPc, checkoutDone>>

\* the record of a checkout call
CheckoutCall(options, out, em, secret) ==
  [op |-> "checkout", body |-> options, options |-> NoCall.options,
   ret |-> out.ret, produced |-> out.events,
   events |-> Delivered(em, out.events), emitter |-> em, secret |-> secret]

\* StripePaymentProvider.checkoutRedirect(options)
StripeCheckoutRedirectCall(options, api) ==
  /\ provider = "Stripe"
  /\ last.op = "none"
  /\ calls < MaxCalls
  /\ LET out == StripeCheckoutRedirect(options, api) IN
       /\ emitted' = Emit(emitted, eventEmitter, out.events)
       /\ last' = CheckoutCall(options, out, eventEmitter, webhookSecret)
       /\ checkoutDone' = IF out.done.op = "none" THEN checkoutDone ELSE out.done
  /\ calls' = calls + 1
  /\ UNCHANGED <<provider, config, eventEmitter, webhookSecret,
                 masterKeySha512Hash, initPc, secretsUsed,
                 redelivered,
                 compareSteps>>

\* the operations StripePaymentProvider does not support
\*   checkoutMobileMoney and checkoutCreditCard are async and throw;
\*   payoutMobileMoney is not async and throws
StripeUnsupported(op) ==
  IF op = "payoutMobileMoney"
  THEN Outcome(Thrown("UNSUPPORTED_PAYMENT_METHOD"), <<>>)
  ELSE Outcome(Rejected("UNSUPPORTED_PAYMENT_METHOD"), <<>>)

\* the record of a call of such an operation
UnsupportedCall(op, out, em, secret) ==
  [op |-> op, body |-> NoObject, options |-> NoCall.options,
   ret |-> out.ret, produced |-> out.events,
   events |-> Delivered(em, out.events), emitter |-> em, secret |-> secret]

\* StripePaymentProvider.checkoutMobileMoney(options),
\*   checkoutCreditCard(options) and payoutMobileMoney(options)
StripeUnsupportedCall(op) ==
  /\ provider = "Stripe"
  /\ last.op = "none"
  /\ calls < MaxCalls
  /\ LET out == StripeUnsupported(op) IN
       /\ emitted' = Emit(emitted, eventEmitter, out.events)
       /\ last' = UnsupportedCall(op, out, eventEmitter, webhookSecret)
  /\ calls' = calls + 1
  /\ UNCHANGED <<provider, config, eventEmitter, webhookSecret,
                 masterKeySha512Hash, initPc, checkoutDone, secretsUsed,
                 redelivered,
                 compareSteps>>

\* PaydunyaPaymentProvider.checkout(options)
PaydunyaCheckoutCall(options, api) ==
  /\ provider = "Paydunya"
  /\ last.op = "none"
  /\ calls < MaxCalls
  /\ LET out == PaydunyaCheckout(options, api) IN
       /\ emitted' = Emit(emitted, eventEmitter, out.events)
       /\ last' = CheckoutCall(options, out, eventEmitter, masterKeySha512Hash)
       /\ checkoutDone' = IF out.done.op = "none" THEN checkoutDone ELSE out.done
  /\ calls' = calls + 1
  /\ UNCHANGED <<provider, config, eventEmitter, webhookSecret,
                 masterKeySha512Hash, initPc, secretsUsed,
                 redelivered,
                 compareSteps>>

Next ==
  \/ useEventEmitter
  \/ HostResumes
  \/ Redelivery
  \/ InitListResolved
  \/ InitCreateResolved
  \/ InitRejected
  \/ \E rawBody \in StripeBodies, options \in StripeOptions :
       StripeHandleWebhook(rawBody, options)
  \/ \E body \in PaydunyaBodies : PaydunyaHandleWebhook(body)
  \/ \E body \in PaydunyaBodies : PaydunyaLegacyHandleWebhook(body)
  \/ \E options \in StripeCheckoutOptions, api \in ApiAnswers :
       StripeCheckoutRedirectCall(options, api)
  \/ \E options \in PaydunyaCheckoutOptions, api \in ApiAnswers :
       PaydunyaCheckoutCall(options, api)
  \/ \E op \in {"checkoutMobileMoney", "checkoutCreditCard",
                 "payoutMobileMoney"} :
       StripeUnsupportedCall(op)

Spec == Init /\ [][Next]_vars

\* ------------------------------------------------------------------ claims

\* vocabulary of the claims, in terms of the arguments and the result of the
\*   last call

IsWebhook == last.op = "handleWebhook"

EventTypes(events) == [i \in 1..Len(events) |-> events[i].type]

\* the stripe-signature header of the last call is the signature of its raw
\*   body under the secret the provider held
StripeSignatureValid ==
  /\ last.options.kind = "sig"
  /\ last.options.sig.bodyOk
  /\ last.options.sig.key = last.secret

StripeVerified ==
  provider = "Stripe" /\ IsWebhook /\ Truthy(last.secret) /\ StripeSignatureValid

StripeCorrelated ==
  Truthy(OptGet(last.body.session.metadata, "transactionId"))

\* the hash of the last body is the SHA-512 of the configured master key
PaydunyaHashMatches ==
  Truthy(last.body.hash) /\ last.body.hash = Sha512(config.masterKey)

PaydunyaVerified == provider = "Paydunya" /\ IsWebhook /\ PaydunyaHashMatches

PaydunyaCorrelated ==
  Truthy(OptGet(last.body.custom_data, "transaction_id"))

\* C1: handleWebhook never raises: whatever the provider, the body and the
\*   options (absent options, absent headers, missing nested fields), the
\*   promise it returns is not rejected.
C1_HandleWebhookNeverRaises ==
  IsWebhook => last.ret.kind # "throw"

\* C2: a Paydunya webhook whose hash is missing, empty or different from the
\*   SHA-512 of the configured master key yields null and emits nothing,
\*   whatever the other fields of the body are.
C2_HashMismatchYieldsNull ==
  (provider \in {"Paydunya", "PaydunyaLegacy"} /\ IsWebhook
     /\ ~PaydunyaHashMatches)
  => (last.ret.kind = "null" /\ last.produced = <<>> /\ last.events = <<>>)

\* C3: a Stripe webhook without stripe-signature header, or handled while no
\*   webhook secret is held, or whose signature does not verify, returns null
\*   and emits nothing; an event is emitted only after the current body was
\*   verified with the current secret.
C3_UnverifiedStripeYieldsNull ==
  (provider = "Stripe" /\ IsWebhook) =>
    /\ ~StripeVerified =>
         (last.ret.kind = "null" /\ last.produced = <<>> /\ last.events = <<>>)
    /\ last.events # <<>> => StripeVerified

\* C4: every event a handleWebhook call emits carries a non-empty
\*   transactionId; a verified webhook without correlation identifier emits
\*   no event.
C4_EmittedEventsAreCorrelated ==
  IsWebhook =>
    /\ \A i \in 1..Len(last.events) : Truthy(last.events[i].transactionId)
    /\ (StripeVerified /\ ~StripeCorrelated) => last.events = <<>>
    /\ (PaydunyaVerified /\ ~PaydunyaCorrelated) => last.events = <<>>

StripeCompleted(paid) ==
  /\ StripeVerified
  /\ StripeCorrelated
  /\ last.body.type = "checkout.session.completed"
  /\ (last.body.session.payment_status = "s:paid") = paid

\* the event carries the session's transactionId, amount_total and currency
CarriesSession(event, session) ==
  /\ event.transactionId = session.metadata.transactionId
  /\ event.transactionAmount = session.amount_total
  /\ event.transactionCurrency = session.currency
  /\ event.transactionReference = session.id

\* the events of the last call are the last ones on the log of the emitter
\*   that was bound during the call
LoggedLast ==
  LET log == emitted[last.emitter] n == Len(last.events) IN
    Len(log) >= n /\ SubSeq(log, Len(log) - n + 1, Len(log)) = last.events

\* C5 (as stated): a verified, correlated checkout.session.completed webhook
\*   with payment_status "paid" emits PAYMENT_INITIATED then
\*   PAYMENT_SUCCESSFUL, exactly these two, and returns the SUCCESSFUL event
\*   carrying the session's transactionId, amount_total and currency.
C5_PaidEmitsInitiatedThenSuccessful ==
  StripeCompleted(TRUE) =>
    /\ EventTypes(last.events) = <<PAYMENT_INITIATED, PAYMENT_SUCCESSFUL>>
    /\ last.ret.kind = "event"
    /\ last.ret.event = last.events[2]
    /\ CarriesSession(last.ret.event, last.body.session)

\* C5 (amended): such a webhook returns the PAYMENT_SUCCESSFUL event carrying
\*   the session's transactionId, amount_total and currency; when an emitter
\*   has been set with useEventEmitter it receives PAYMENT_INITIATED and then
\*   that PAYMENT_SUCCESSFUL event, exactly these two, and when none has been
\*   set nothing is emitted.
C5_PaidWithEmitter ==
  StripeCompleted(TRUE) =>
    /\ last.ret.kind = "event"
    /\ last.ret.event.type = PAYMENT_SUCCESSFUL
    /\ CarriesSession(last.ret.event, last.body.session)
    /\ IF last.emitter = NoEmitter
       THEN last.events = <<>>
       ELSE /\ EventTypes(last.events) = <<PAYMENT_INITIATED, PAYMENT_SUCCESSFUL>>
            /\ last.events[2] = last.ret.event
            /\ CarriesSession(last.events[1], last.body.session)
            /\ LoggedLast

C5_Witness == StripeCompleted(TRUE) /\ last.emitter # NoEmitter

\* C6 (as stated): a verified, correlated checkout.session.completed webhook
\*   with payment_status other than "paid" emits exactly one
\*   PAYMENT_INITIATED event and no other, and returns it.
C6_UnpaidEmitsInitiatedOnly ==
  StripeCompleted(FALSE) =>
    /\ EventTypes(last.events) = <<PAYMENT_INITIATED>>
    /\ last.ret.kind = "event"
    /\ last.ret.event = last.events[1]

\* C6 (amended): such a webhook returns the PAYMENT_INITIATED event; when an
\*   emitter has been set with useEventEmitter it receives exactly that one
\*   event, and when none has been set nothing is emitted.
C6_UnpaidWithEmitter ==
  StripeCompleted(FALSE) =>
    /\ last.ret.kind = "event"
    /\ last.ret.event.type = PAYMENT_INITIATED
    /\ CarriesSession(last.ret.event, last.body.session)
    /\ IF last.emitter = NoEmitter
       THEN last.events = <<>>
       ELSE last.events = <<last.ret.event>> /\ LoggedLast

C6_Witness == StripeCompleted(FALSE) /\ last.emitter # NoEmitter

StripeUnrecognized ==
  /\ StripeVerified
  /\ last.body.type \notin {"checkout.session.completed",
                           "checkout.session.async_payment_succeeded",
                           "checkout.session.async_payment_failed"}

PaydunyaUnrecognized ==
  /\ PaydunyaVerified
  /\ ~(last.body.status = "s:completed" /\ last.body.response_code = "s:00")
  /\ last.body.status \notin {"s:cancelled", "s:failed"}

\* C7: a verified webhook with an unrecognized status (Stripe: an event type
\*   other than the three handled ones; Paydunya: a status other than
\*   completed with response_code 00, cancelled and failed) returns null and
\*   emits nothing.
C7_UnrecognizedYieldsNull ==
  (StripeUnrecognized \/ PaydunyaUnrecognized)
  => (last.ret.kind = "null" /\ last.events = <<>>)

\* C8: the value handleWebhook returns is the last event it emitted: when
\*   the call handed events to the emitter, it returns the last of them, and
\*   it returns an event only when it handed that event to the emitter.
C8_ReturnsLastEmitted ==
  IsWebhook =>
    /\ last.produced # <<>> =>
         (last.ret.kind = "event"
            /\ last.ret.event = last.produced[Len(last.produced)])
    /\ last.ret.kind = "event" => last.produced # <<>>

HasReason(event) == event.reason \notin {Undefined, Null}

TerminalTypes == {PAYMENT_SUCCESSFUL, PAYMENT_FAILED, PAYMENT_CANCELLED}

\* C9: with an emitter set, a verified, correlated webhook reporting
\*   asynchronous settlement success emits exactly one PAYMENT_SUCCESSFUL, one
\*   reporting failure exactly one PAYMENT_FAILED with a reason string, one
\*   reporting cancellation exactly one PAYMENT_CANCELLED with a reason
\*   string; no webhook emits two different terminal kinds.
C9_TerminalOutcomes ==
  (IsWebhook /\ last.emitter # NoEmitter) =>
    /\ (StripeVerified /\ StripeCorrelated
          /\ last.body.type = "checkout.session.async_payment_succeeded")
       => EventTypes(last.events) = <<PAYMENT_SUCCESSFUL>>
    /\ (StripeVerified /\ StripeCorrelated
          /\ last.body.type = "checkout.session.async_payment_failed")
       => (EventTypes(last.events) = <<PAYMENT_FAILED>>
             /\ HasReason(last.events[1]))
    /\ (PaydunyaVerified /\ PaydunyaCorrelated
          /\ last.body.status = "s:failed")
       => (EventTypes(last.events) = <<PAYMENT_FAILED>>
             /\ HasReason(last.events[1]))
    /\ (PaydunyaVerified /\ PaydunyaCorrelated
          /\ last.body.status = "s:cancelled")
       => (EventTypes(last.events) = <<PAYMENT_CANCELLED>>
             /\ HasReason(last.events[1]))
    /\ Cardinality({last.events[i].type : i \in 1..Len(last.events)}
                   \cap TerminalTypes) <= 1

\* the last webhook echoes the metadata (custom_data) and the reference of
\*   the checkout that returned before it
EchoesCheckout ==
  /\ IsWebhook
  /\ checkoutDone.op = "checkout"
  /\ checkoutDone.returned
  /\ IF provider = "Stripe"
     THEN /\ last.body.session.metadata = checkoutDone.sent
          /\ last.body.session.id = checkoutDone.result.transactionReference
     ELSE /\ last.body.custom_data = checkoutDone.sent
          /\ OptGet(last.body.invoice, "token")
               = checkoutDone.result.transactionReference

\* C10: when a webhook echoes the metadata and the reference of a checkout,
\*   whatever the caller's metadata (also with a key named transactionId or
\*   transaction_id), every event it emits carries the transactionId passed
\*   to checkout and the transactionReference checkout returned.
C10_IdentityRoundTrips ==
  EchoesCheckout =>
    \A i \in 1..Len(last.events) :
      /\ last.events[i].transactionId = checkoutDone.options.transactionId
      /\ last.events[i].transactionReference
           = checkoutDone.result.transactionReference

\* the strings of the model that are not the JSON text of any value
PlainTexts == {"s:hello", "s:tx-42", "s:tx-evil"}

\* the events the last call built, and the one it returned
BuiltEvents ==
  {last.produced[i] : i \in 1..Len(last.produced)}
  \cup (IF last.ret.kind = "event" THEN {last.ret.event} ELSE {})

StripeEchoesCheckout == provider = "Stripe" /\ EchoesCheckout /\ StripeVerified

C12_SecretNeverChanges ==
  /\ provider # "Stripe" => masterKeySha512Hash = Sha512(config.masterKey)
  /\ Cardinality(secretsUsed) <= 1

\* C12 (amended): Paydunya's masterKeySha512Hash is always the SHA-512 of
\*   the configured master key and is the secret of every invocation;
\*   Stripe's webhookSecret is the configured one until init() has
\*   registered an endpoint and the registered endpoint's secret from then
\*   on, so invocations ran with at most these two secrets, and once one
\*   ran with the registered secret the provider keeps holding it.
C12_SecretChangesOnlyByInit ==
  /\ provider # "Stripe" =>
       /\ masterKeySha512Hash = Sha512(config.masterKey)
       /\ secretsUsed \subseteq {Sha512(config.masterKey)}
       /\ webhookSecret = Undefined
  /\ provider = "Stripe" =>
       /\ masterKeySha512Hash = Undefined
       /\ webhookSecret =
            IF initPc = "done" /\ webhookSecret # config.webhookSecret
            THEN "s:whsec_reg" ELSE config.webhookSecret
       /\ webhookSecret # config.webhookSecret => Truthy(config.webhookUrl)
       /\ secretsUsed \subseteq {config.webhookSecret, "s:whsec_reg"}
       /\ "s:whsec_reg" \in secretsUsed => webhookSecret = "s:whsec_reg"

\* a Paydunya provider after useEventEmitter, a checkout and a handleWebhook
C12_Witness ==
  /\ provider = "Paydunya"
  /\ calls = MaxCalls
  /\ checkoutDone.op = "checkout"
  /\ IsWebhook
  /\ eventEmitter # NoEmitter
  /\ secretsUsed # {}

\* the webhook of a handleWebhook call passed the provider's verification
Verified(call) ==
  IF provider = "Stripe"
  THEN /\ Truthy(call.secret)
       /\ call.options.kind = "sig"
       /\ call.options.sig.bodyOk
       /\ call.options.sig.key = call.secret
  ELSE Truthy(call.body.hash) /\ call.body.hash = Sha512(config.masterKey)

\* the last call is the second delivery of a webhook that verified both times
VerifiedTwice ==
  /\ redelivered.op = "handleWebhook"
  /\ IsWebhook
  /\ Verified(redelivered)
  /\ Verified(last)

\* the log of emitter em ends with the events of events
LogEndsWith(em, events) ==
  LET log == emitted[em] n == Len(events) IN
    Len(log) >= n /\ SubSeq(log, Len(log) - n + 1, Len(log)) = events

UnrecognizedPaymentMethod ==
  /\ provider \in {"Paydunya", "PaydunyaLegacy"}
  /\ IsWebhook
  /\ PaydunyaHashMatches
  /\ last.emitter # NoEmitter
  /\ IsObject(last.body.customer)
  /\ IsObject(last.body.invoice)
  /\ IsObject(last.body.custom_data)
  /\ Get(last.body.customer, "payment_method")
       \notin {"s:wave_senegal", "s:orange_money_senegal"}
  /\ \/ last.body.status = "s:completed" /\ last.body.response_code = "s:00"
     \/ provider = "Paydunya" /\ last.body.status \in {"s:cancelled", "s:failed"}

\* C14: a verified Paydunya webhook with a recognized status and an
\*   unrecognized customer.payment_method does not fail decode: the call
\*   does not throw and emits its one canonical event, with paymentMethod
\*   null.
C14_UnknownMethodMapsToNull ==
  UnrecognizedPaymentMethod =>
    /\ last.ret.kind # "throw"
    /\ Len(last.events) = 1
    /\ last.events[1].paymentMethod = Null
    /\ last.events[1].type =
         (CASE last.body.status = "s:completed" -> PAYMENT_SUCCESSFUL
            [] last.body.status = "s:cancelled" -> PAYMENT_CANCELLED
            [] OTHER -> PAYMENT_FAILED)

\* the last call asked the provider for an operation it cannot perform
UnsupportedAsked ==
  \/ /\ provider = "Stripe"
     /\ last.op \in {"checkoutMobileMoney", "checkoutCreditCard",
                     "payoutMobileMoney"}
  \/ /\ provider = "Paydunya"
     /\ last.op = "checkout"
     /\ \/ last.body.currency # XOF
        \/ last.body.paymentMethod \notin {WAVE, ORANGE_MONEY}

\* C15: an operation the provider cannot perform fails through the
\*   returned promise, which is rejected with a PaymentError of type
\*   UNSUPPORTED_PAYMENT_METHOD, and emits no event.
C15_UnsupportedRejectsPromise ==
  UnsupportedAsked =>
    /\ last.ret = Rejected("UNSUPPORTED_PAYMENT_METHOD")
    /\ last.produced = <<>>
    /\ last.events = <<>>

\* C16: the comparison of body.hash with the cached hash is constant-time:
\*   all the webhooks a provider rejected for a wrong hash cost the same
\*   number of character comparisons, however many leading characters of
\*   the supplied hash matched.
C16_ConstantTimeComparison ==
  provider \in {"Paydunya", "PaydunyaLegacy"} => Cardinality(compareSteps) <= 1

\* C17: a handleWebhook invocation runs to completion: every step that
\*   changes an emitter's log is one invocation, during which the bound
\*   emitter does not change, and it appends all the events of that
\*   invocation, in order, at the end of the log; so the events of one
\*   invocation are contiguous and those of another never come between them.
C17_RunToCompletion ==
  [][emitted' # emitted =>
       /\ last'.op \in {"handleWebhook", "checkout"}
       /\ calls' = calls + 1
       /\ eventEmitter' = eventEmitter
       /\ last'.emitter = eventEmitter
       /\ last'.events = last'.produced
       /\ emitted' = [emitted EXCEPT ![eventEmitter] = @ \o last'.produced]]_vars

\* a Stripe completed/paid webhook was delivered again while the earlier
\*   call was not yet resumed by the host, and the emitter's log holds
\*   INITIATED, SUCCESSFUL of the one, then INITIATED, SUCCESSFUL of the other
C17_Witness ==
  /\ provider = "Stripe"
  /\ redelivered.op = "handleWebhook"
  /\ IsWebhook
  /\ last.emitter # NoEmitter
  /\ last.emitter = redelivered.emitter
  /\ EventTypes(redelivered.events) = <<PAYMENT_INITIATED, PAYMENT_SUCCESSFUL>>
  /\ EventTypes(last.events) = <<PAYMENT_INITIATED, PAYMENT_SUCCESSFUL>>
  /\ EventTypes(emitted[last.emitter])
       = <<PAYMENT_INITIATED, PAYMENT_SUCCESSFUL,
           PAYMENT_INITIATED, PAYMENT_SUCCESSFUL>>

\* the secret held follows init(): the configured one until init() has
\*   registered an endpoint, the registered one from then on
SecretFollowsInit ==
  provider = "Stripe" =>
    /\ initPc \in {"list", "create", "failed"}
         => webhookSecret = config.webhookSecret
    /\ initPc = "done"
         => webhookSecret \in {config.webhookSecret, "s:whsec_reg"}
    /\ ~Truthy(config.webhookUrl)
         => (initPc = "done" /\ webhookSecret = config.webhookSecret)

\* a step of init(): registering replaces the secret, finding the endpoint
\*   or failing leaves it
InitStep ==
  /\ (initPc = "create" /\ initPc' = "done") => webhookSecret' = "s:whsec_reg"
  /\ (initPc = "list" \/ initPc' = "failed") => webhookSecret' = webhookSecret
  /\ initPc' # initPc => (last' = last /\ emitted' = emitted)

\* the last webhook was handled while the provider held no secret
NoSecretHeld == provider = "Stripe" /\ IsWebhook /\ ~Truthy(last.secret)

\* C18: right after construction the secret is config.webhookSecret; when
\*   init() registers an endpoint the secret becomes the registered one, and
\*   when init() finds the endpoint or fails the secret stays the configured
\*   one and nothing is thrown at the caller; in every interleaving, a
\*   handleWebhook that runs while no secret is held returns null and emits
\*   nothing.
C18_SecretLifecycle ==
  /\ [](SecretFollowsInit
         /\ (NoSecretHeld =>
               (last.ret.kind = "null" /\ last.produced = <<>>
                  /\ last.events = <<>>)))
  /\ [][InitStep]_vars

\* a step delivers events only to the emitter most recently passed to
\*   useEventEmitter
OnlyBoundEmitterReceives ==
  \A e \in Emitters :
    emitted'[e] # emitted[e] =>
      /\ e = eventEmitter
      /\ eventEmitter' = eventEmitter
      /\ emitted'[e] = emitted[e] \o last'.produced

\* the last call ran with no emitter set: nothing was emitted
UnboundEmitsNothing ==
  (last.op # "none" /\ last.emitter = NoEmitter) => last.events = <<>>

\* a Stripe webhook handled with no emitter set and handled again, under the
\*   same secret, with an emitter set, returned the same value both times,
\*   and the events built the first time reached the emitter the second time
UnboundReturnsSame ==
  (provider = "Stripe" /\ redelivered.op = "handleWebhook" /\ IsWebhook
     /\ redelivered.emitter = NoEmitter /\ last.emitter # NoEmitter
     /\ redelivered.secret = last.secret)
  => /\ last.ret = redelivered.ret
     /\ redelivered.events = <<>>
     /\ last.events = redelivered.produced

\* C19: events reach only the emitter most recently passed to
\*   useEventEmitter: after useEventEmitter(e2) no later event reaches e1;
\*   while no emitter is set a call emits nothing, and Stripe's
\*   handleWebhook returns the event it returns with an emitter set.
C19_EmitterBinding ==
  /\ [](UnboundEmitsNothing /\ UnboundReturnsSame)
  /\ [][OnlyBoundEmitterReceives]_vars

\* e1 was bound and received the events of a call, then e2 was bound and
\*   received those of the next call, which did not reach e1
C19_Witness ==
  /\ eventEmitter = "e2"
  /\ IsWebhook
  /\ last.emitter = "e2"
  /\ last.events # <<>>
  /\ emitted["e2"] = last.events
  /\ emitted["e1"] # <<>>

====
